---- MODULE Spec2Model ----
(***************************************************************************)
(* A model of the go-colorful colour library (src/colors.go).              *)
(*                                                                         *)
(* The library is a set of pure functions over float64 triples.  The model *)
(* is a caller that invokes one library operation per step, with arguments *)
(* drawn from bounded sets, and records the call (operation, arguments,    *)
(* result, divisors evaluated) in the state.  A follow-up step may call an *)
(* operation on the result or on a variation of the arguments of the       *)
(* current call; the call it follows is then kept in `prev`.               *)
(*                                                                         *)
(* Numbers.  A float64 is modelled as an exact rational <<n, d>> (d > 0,   *)
(* lowest terms), so that the algebraic laws are decided in exact          *)
(* arithmetic.  Go's float division by zero does not panic: it yields      *)
(* +-Inf or NaN, modelled as <<sign, 0>>.  math.Sqrt and math.Cbrt have    *)
(* irrational results and are rounded down to a fixed resolution.          *)
(***************************************************************************)
EXTENDS Integers, Sequences, FiniteSets, TLC

VARIABLES call, prev, pkg, pending

vars == <<call, prev, pkg, pending>>

\* the state of the sequential caller
seq == <<call, prev>>

\* the package-level values and the calls in flight in the goroutines
shared == <<pkg, pending>>

(***************************************************************************)
(* Bounds of the model.                                                    *)
(***************************************************************************)
\* channels of the first colour argument are k/ChanMax
ChanMax == 3
\* channels of the second colour argument are k/PairMax
PairMax == 2
\* out-of-range channels reach OverMax steps of 1/ChanMax beyond [0,1]
OverMax == 2
\* blend parameters are k/TMax
TMax == 2
\* hues are multiples of 360/HueDiv degrees
HueDiv == 36
\* saturation, value and lightness arguments of the inverses are k/SatMax
SatMax == 2
\* near-equal colours differ by up to NearMax Deltas per channel
NearMax == 1
\* an irrational root is rounded down to a multiple of 1/RootRes
RootRes == 1000
\* the colours blended in HCL and LuvLCh have channels k/HclMax
HclMax == 2
\* the a, b (u, v) given to the polar conversions are k/PolarMax
PolarMax == 2
\* linearize is given the LinSpan multiples of 1/20000 up to its breakpoint
\* 0.04045, and the k/LinSpan
LinSpan == 2
\* lab_f is given the cubes of the k/2 and of the 6/29 + j/(29*CubeMax)
CubeMax == 2
\* the goroutines calling the library at the same time are 1..NumGo
NumGo == 2
\* the arguments of the concurrent calls are made of k/ConcMax
ConcMax == 2
\* a result out of the integer range is rounded to a multiple of 1/FixRes
FixRes == 10000
\* tristimulus and xyY arguments are k/XyzMax, negative ones included
XyzMax == 2
\* L*u*v* arguments are k/LuvMax, negative u and v included
LuvMax == 2
\* channels of the colours compared in L*a*b* are k/LabMax
LabMax == 2

(***************************************************************************)
(* Arithmetic: the float64 operations of the source.  A result is exact    *)
(* while its numerator stays below NumMax and its denominator below        *)
(* DenMax; a result that would leave that range is rounded toward zero to  *)
(* a multiple of 1/FixRes, as a float64 rounds what its mantissa cannot    *)
(* hold.                                                                   *)
(***************************************************************************)
NumMax == 2^30

DenMax == 2^21

RECURSIVE GCD(_, _)
GCD(a, b) == IF b = 0 THEN a ELSE GCD(b, a % b)

IAbs(n) == IF n < 0 THEN -n ELSE n

ISign(n) == IF n < 0 THEN -1 ELSE IF n > 0 THEN 1 ELSE 0

\* the product x*y stays within max
Fits(x, y, max) == x = 0 \/ y = 0 \/ IAbs(x) <= max \div IAbs(y)

\* <<quotient, remainder>> h of a division by c, multiplied by the base B
\* with t added, for h[2] < c, t < c*B and c*B <= 2^30
MulDivShift(h, t, c, B) ==
    <<h[1] * B + (h[2] * B + t) \div c, (h[2] * B + t) % c>>

\* <<quotient, remainder>> of r*b by c for 0 <= r < c and b >= 0, one digit
\* of b in base B at a time, so that no intermediate product leaves the
\* integer range
RECURSIVE MulDivRem(_, _, _, _)
MulDivRem(r, b, c, B) ==
    IF b = 0 THEN <<0, 0>>
    ELSE MulDivShift(MulDivRem(r, b \div B, c, B), r * (b % B), c, B)

\* floor(a*b/c) for 0 < c <= 2^29
MulDivBig(a, b, c) == (a \div c) * b + MulDivRem(a % c, b, c, 2^30 \div c)[1]

\* floor(a*b/c) for a, b >= 0 and c > 0 (b and c halved when c is above 2^29)
MulDiv(a, b, c) ==
    IF Fits(a, b, NumMax) THEN (a * b) \div c
    ELSE IF c > 2^29 THEN MulDivBig(a, b \div 2, c \div 2)
    ELSE MulDivBig(a, b, c)

\* n/d for d # 0 and g the greatest common divisor of n and d
QNorm(n, d, g) ==
    IF d < 0 THEN <<-(n \div g), -(d \div g)>> ELSE <<n \div g, d \div g>>

\* n/d in lowest terms with a positive denominator; d = 0 gives +-Inf or NaN
Q(n, d) ==
    IF d = 0 THEN <<ISign(n), 0>> ELSE QNorm(n, d, GCD(IAbs(n), IAbs(d)))

QPair(x) == Q(x[1], x[2])

QInt(n) == <<n, 1>>

NaN == <<0, 0>>

QIsFinite(a) == a[2] # 0

\* a rounded toward zero to a multiple of 1/FixRes, as that multiple
ToFix(a) == ISign(a[1]) * MulDiv(IAbs(a[1]), FixRes, a[2])

QNeg(a) == <<-a[1], a[2]>>

\* a + b with p = b[2]/g and q = a[2]/g, g the gcd of the denominators
QAddP(a, b, p, q) ==
    QPair(IF Fits(a[1], p, NumMax) /\ Fits(b[1], q, NumMax)
             /\ Fits(q, b[2], DenMax)
             /\ IAbs(a[1] * p) <= NumMax - IAbs(b[1] * q)
          THEN <<a[1] * p + b[1] * q, q * b[2]>>
          ELSE <<ToFix(a) + ToFix(b), FixRes>>)

QAddG(a, b, g) == QAddP(a, b, b[2] \div g, a[2] \div g)

QAdd(a, b) ==
    IF a[2] = 0 \/ b[2] = 0 THEN NaN ELSE QAddG(a, b, GCD(a[2], b[2]))

QSub(a, b) == QAdd(a, QNeg(b))

\* n1/d1 < n2/d2 by continued fractions, for d1, d2 > 0
RECURSIVE FracLt(_, _, _, _)
FracLt(n1, d1, n2, d2) ==
    IF n1 \div d1 # n2 \div d2 THEN n1 \div d1 < n2 \div d2
    ELSE IF n2 % d2 = 0 THEN FALSE
    ELSE IF n1 % d1 = 0 THEN TRUE
    ELSE FracLt(d2, n2 % d2, d1, n1 % d1)

\* a*b rounded toward zero to a multiple of 1/FixRes: a is rounded first
QMulR(a, b) ==
    <<ISign(a[1]) * ISign(b[1]) * MulDiv(IAbs(ToFix(a)), IAbs(b[1]), b[2]),
      FixRes>>

\* a*b, with n1/d1 and n2/d2 the fractions a and b without the factors
\* they have in common across; the larger factor is the one rounded first
QMulN(a, b, n1, d1, n2, d2) ==
    IF Fits(n1, n2, NumMax) /\ Fits(d1, d2, DenMax) THEN <<n1 * n2, d1 * d2>>
    ELSE QPair(IF FracLt(IAbs(a[1]), a[2], IAbs(b[1]), b[2]) THEN QMulR(b, a)
               ELSE QMulR(a, b))

QMulG(a, b, g1, g2) ==
    QMulN(a, b, a[1] \div g1, a[2] \div g2, b[1] \div g2, b[2] \div g1)

QMul(a, b) ==
    IF a[2] = 0 \/ b[2] = 0 THEN NaN
    ELSE QMulG(a, b, GCD(IAbs(a[1]), b[2]), GCD(IAbs(b[1]), a[2]))

\* 1/b for b # 0
QInv(b) == IF b[1] < 0 THEN <<-b[2], -b[1]>> ELSE <<b[2], b[1]>>

\* float division: a zero divisor gives <<sign, 0>> (+-Inf, or NaN for 0/0)
QDiv(a, b) ==
    IF a[2] = 0 \/ b[2] = 0 THEN NaN
    ELSE IF b[1] = 0 THEN <<ISign(a[1]), 0>>
    ELSE QMul(a, QInv(b))

\* a comparison with +-Inf or NaN is false, as every float comparison with
\* NaN is
QLt(a, b) ==
    IF a[2] = 0 \/ b[2] = 0 THEN FALSE
    ELSE IF Fits(a[1], b[2], NumMax) /\ Fits(b[1], a[2], NumMax)
    THEN a[1] * b[2] < b[1] * a[2]
    ELSE FracLt(a[1], a[2], b[1], b[2])

QLe(a, b) == a[2] # 0 /\ b[2] # 0 /\ ~QLt(b, a)

\* math.Abs
QAbs(a) == <<IAbs(a[1]), a[2]>>

\* math.Min
QMin(a, b) == IF QLt(b, a) THEN b ELSE a

\* math.Max
QMax(a, b) == IF QLt(a, b) THEN b ELSE a

\* the integer part of a, rounded toward zero
QTrunc(a) == IF a[1] >= 0 THEN a[1] \div a[2] ELSE -((-a[1]) \div a[2])

\* math.Mod: the remainder of x/y with the sign of x (C's fmod)
QMod(x, y) == QSub(x, QMul(y, QInt(QTrunc(QDiv(x, y)))))

Zero == QInt(0)

One == QInt(1)

\* the largest r in lo..hi-1 with r*r <= x, given lo*lo <= x < hi*hi
RECURSIVE ISqrtBS(_, _, _)
ISqrtBS(x, lo, hi) ==
    IF hi - lo <= 1 THEN lo
    ELSE IF ((lo + hi) \div 2) * ((lo + hi) \div 2) <= x
    THEN ISqrtBS(x, (lo + hi) \div 2, hi)
    ELSE ISqrtBS(x, lo, (lo + hi) \div 2)

ISqrt(x) == ISqrtBS(x, 0, IF x < 46340 THEN x + 1 ELSE 46341)

\* the largest r in lo..hi-1 with r*r*r <= x
RECURSIVE ICbrtBS(_, _, _)
ICbrtBS(x, lo, hi) ==
    IF hi - lo <= 1 THEN lo
    ELSE IF ((lo + hi) \div 2) * ((lo + hi) \div 2) * ((lo + hi) \div 2) <= x
    THEN ICbrtBS(x, (lo + hi) \div 2, hi)
    ELSE ICbrtBS(x, lo, (lo + hi) \div 2)

ICbrt(x) == ICbrtBS(x, 0, IF x < 1290 THEN x + 1 ELSE 1291)

\* the resolution, r or a tenth, hundredth, ... of it, at which a*res^k
\* stays below 2^31
RECURSIVE ResFor(_, _, _)
ResFor(a, r, k) ==
    IF r <= 1 \/ (a[1] \div a[2]) + 1 <= (2^30 + (2^30 - 1)) \div (r ^ k) THEN r
    ELSE ResFor(a, r \div 10, k)

\* the square root of a >= 0 rounded down to a multiple of 1/r
QSqrtAt(a, r) == Q(ISqrt(MulDiv(a[1], r * r, a[2])), r)

\* the square root of a >= 0, n and d the integer roots of a[1] and a[2]
QSqrtOf(a, n, d) ==
    IF n * n = a[1] /\ d * d = a[2] THEN <<n, d>>
    ELSE QSqrtAt(a, ResFor(a, RootRes, 2))

\* math.Sqrt: exact on the square of a rational, else rounded down to a
\* multiple of 1/RootRes (coarser for large arguments); NaN below zero
QSqrt(a) ==
    IF a[2] = 0 \/ a[1] < 0 THEN NaN
    ELSE QSqrtOf(a, ISqrt(a[1]), ISqrt(a[2]))

\* the cube root of a >= 0 rounded down to a multiple of 1/r
QCbrtAt(a, r) == Q(ICbrt(MulDiv(a[1], r * r * r, a[2])), r)

\* the cube root of a >= 0, n and d the integer roots of a[1] and a[2]
QCbrtOf(a, n, d) ==
    IF n * n * n = a[1] /\ d * d * d = a[2] THEN <<n, d>>
    ELSE QCbrtAt(a, ResFor(a, RootRes, 3))

\* math.Cbrt: exact on the cube of a rational, else rounded toward zero to a
\* multiple of 1/RootRes; odd, so that Cbrt(-a) = -Cbrt(a)
QCbrt(a) ==
    IF a[2] = 0 THEN NaN
    ELSE IF a[1] < 0 THEN QNeg(QCbrtOf(QAbs(a), ICbrt(-a[1]), ICbrt(a[2])))
    ELSE QCbrtOf(a, ICbrt(a[1]), ICbrt(a[2]))

(***************************************************************************)
(* RGB core.  A value the source holds in a local variable and reads more  *)
(* than once is passed to a helper operator as an argument.                *)
(***************************************************************************)
Color(r, g, b) == [R |-> r, G |-> g, B |-> b]

\* const Delta = 1.0 / 255.0
Delta == Q(1, 255)

IsValid(c) ==
    /\ QLe(Zero, c.R) /\ QLe(c.R, One)
    /\ QLe(Zero, c.G) /\ QLe(c.G, One)
    /\ QLe(Zero, c.B) /\ QLe(c.B, One)

\* faulty variant: the upper bound forgotten
clamp01_NoUpper(v) == QMax(Zero, v)

clamp01(v) == QMax(Zero, QMin(v, One))

Clamped(c) == Color(clamp01(c.R), clamp01(c.G), clamp01(c.B))

sq(v) == QMul(v, v)

cub(v) == QMul(QMul(v, v), v)

DistanceRgb(c1, c2) ==
    QSqrt(QAdd(QAdd(sq(QSub(c1.R, c2.R)), sq(QSub(c1.G, c2.G))),
               sq(QSub(c1.B, c2.B))))

\* the return expression of DistanceRiemersma
RiemersmaOf(rAvg, dR, dG, dB) ==
    QSqrt(QAdd(QAdd(QMul(QMul(QAdd(QInt(2), rAvg), dR), dR),
                    QMul(QMul(QInt(4), dG), dG)),
               QMul(QMul(QAdd(QInt(2), QSub(One, rAvg)), dB), dB)))

\* faulty variant: the red weight taken from the first colour alone
DistanceRiemersma_OwnRed(c1, c2) ==
    RiemersmaOf(c1.R, QSub(c1.R, c2.R), QSub(c1.G, c2.G), QSub(c1.B, c2.B))

DistanceRiemersma(c1, c2) ==
    RiemersmaOf(QDiv(QAdd(c1.R, c2.R), QInt(2)),
                QSub(c1.R, c2.R), QSub(c1.G, c2.G), QSub(c1.B, c2.B))

\* faulty variant: the comparison not strict
AlmostEqualRgb_NotStrict(c1, c2) ==
    QLe(QAdd(QAdd(QAbs(QSub(c1.R, c2.R)), QAbs(QSub(c1.G, c2.G))),
             QAbs(QSub(c1.B, c2.B))),
        QMul(QInt(3), Delta))

AlmostEqualRgb(c1, c2) ==
    QLt(QAdd(QAdd(QAbs(QSub(c1.R, c2.R)), QAbs(QSub(c1.G, c2.G))),
             QAbs(QSub(c1.B, c2.B))),
        QMul(QInt(3), Delta))

\* faulty variant: the first colour not subtracted from the second
BlendRgb_NoDifference(c1, c2, t) ==
    Color(QAdd(c1.R, QMul(t, c2.R)),
          QAdd(c1.G, QMul(t, c2.G)),
          QAdd(c1.B, QMul(t, c2.B)))

BlendRgb(c1, c2, t) ==
    Color(QAdd(c1.R, QMul(t, QSub(c2.R, c1.R))),
          QAdd(c1.G, QMul(t, QSub(c2.G, c1.G))),
          QAdd(c1.B, QMul(t, QSub(c2.B, c1.B))))

\* faulty variant: the difference of the angles not reduced to the shortest arc
interp_angle_LongWay(a0, a1, t) ==
    QMod(QAdd(QAdd(a0, QMul(t, QSub(a1, a0))), QInt(360)), QInt(360))

interp_angle(a0, a1, t) ==
    QMod(QAdd(QAdd(a0,
                   QMul(t, QSub(QMod(QAdd(QMod(QSub(a1, a0), QInt(360)),
                                          QInt(540)),
                                     QInt(360)),
                                QInt(180)))),
              QInt(360)),
         QInt(360))

(***************************************************************************)
(* HSV.  A conversion returns its coordinates as a triple.                 *)
(***************************************************************************)
\* faulty variant: a negative hue left as it is
PositiveHue_Kept(h) == h

\* if h < 0 { h += 360 }
PositiveHue(h) == IF QLt(h, Zero) THEN QAdd(h, QInt(360)) ELSE h

\* the hue of Color.Hsv in sixths of a turn, for min # v: the three tests
\* on v run in sequence, so the last one that holds decides
HsvSextant(col, v, C) ==
    IF v = col.B THEN QAdd(QDiv(QSub(col.R, col.G), C), QInt(4))
    ELSE IF v = col.G THEN QAdd(QDiv(QSub(col.B, col.R), C), QInt(2))
    ELSE IF v = col.R THEN QMod(QDiv(QSub(col.G, col.B), C), QInt(6))
    ELSE Zero

\* Color.Hsv from min, v and C = v - min
ColorHsvOf(col, min, v, C) ==
    <<IF min # v THEN PositiveHue(QMul(HsvSextant(col, v, C), QInt(60)))
      ELSE Zero,
      IF v # Zero THEN QDiv(C, v) ELSE Zero,
      v>>

ColorHsvMinMax(col, min, v) == ColorHsvOf(col, min, v, QSub(v, min))

\* func (col Color) Hsv() (h, s, v float64)
ColorHsv(col) ==
    ColorHsvMinMax(col, QMin(QMin(col.R, col.G), col.B),
                   QMax(QMax(col.R, col.G), col.B))

ColorHsvDivisorsOf(min, v) ==
    (IF v # Zero THEN {v} ELSE {}) \cup (IF min # v THEN {QSub(v, min)} ELSE {})

\* the divisors Color.Hsv evaluates on the path it takes
ColorHsvDivisors(col) ==
    ColorHsvDivisorsOf(QMin(QMin(col.R, col.G), col.B),
                       QMax(QMax(col.R, col.G), col.B))

\* r, g, b of Hsv before m is added: the sector of Hp decides
HsvSector(Hp, C, X) ==
    LET In(lo, hi) == QLe(QInt(lo), Hp) /\ QLt(Hp, QInt(hi))
    IN  CASE In(0, 1) -> <<C, X, Zero>>
          [] In(1, 2) -> <<X, C, Zero>>
          [] In(2, 3) -> <<Zero, C, X>>
          [] In(3, 4) -> <<Zero, X, C>>
          [] In(4, 5) -> <<X, Zero, C>>
          [] In(5, 6) -> <<C, Zero, X>>
          [] OTHER    -> <<Zero, Zero, Zero>>

\* Color{m + r, m + g, m + b}
HsvShift(m, rgb) == Color(QAdd(m, rgb[1]), QAdd(m, rgb[2]), QAdd(m, rgb[3]))

HsvOf(Hp, C, V) ==
    HsvShift(QSub(V, C),
             HsvSector(Hp, C,
                 QMul(C, QSub(One, QAbs(QSub(QMod(Hp, QInt(2)), One))))))

\* func Hsv(H, S, V float64) Color
Hsv(H, S, V) == HsvOf(QDiv(H, QInt(60)), QMul(V, S), V)

\* BlendHsv from the HSV coordinates a and b of the two colours
\* the hue BlendHsv passes to Hsv, a and b the <<h, s, v>> of the colours
BlendHsvHue(a, b, t) ==
    interp_angle(IF a[2] = Zero /\ b[2] # Zero THEN b[1] ELSE a[1],
                 IF ~(a[2] = Zero /\ b[2] # Zero)
                        /\ b[2] = Zero /\ a[2] # Zero
                 THEN a[1] ELSE b[1],
                 t)

BlendHsvOf(a, b, t) ==
    Hsv(BlendHsvHue(a, b, t),
        QAdd(a[2], QMul(t, QSub(b[2], a[2]))),
        QAdd(a[3], QMul(t, QSub(b[3], a[3]))))

BlendHsv(c1, c2, t) == BlendHsvOf(ColorHsv(c1), ColorHsv(c2), t)

(***************************************************************************)
(* HSL.                                                                    *)
(***************************************************************************)
\* the saturation of Color.Hsl, for min # max
HslSaturation(min, max, l) ==
    IF QLt(l, Q(1, 2))
    THEN QDiv(QSub(max, min), QAdd(max, min))
    ELSE QDiv(QSub(max, min), QSub(QSub(QInt(2), max), min))

\* the hue of Color.Hsl in sixths of a turn, for min # max
HslSextant(col, min, max) ==
    IF max = col.R
    THEN QDiv(QSub(col.G, col.B), QSub(max, min))
    ELSE IF max = col.G
    THEN QAdd(QInt(2), QDiv(QSub(col.B, col.R), QSub(max, min)))
    ELSE QAdd(QInt(4), QDiv(QSub(col.R, col.G), QSub(max, min)))

ColorHslOf(col, min, max, l) ==
    IF min = max THEN <<Zero, Zero, l>>
    ELSE <<PositiveHue(QMul(HslSextant(col, min, max), QInt(60))),
           HslSaturation(min, max, l), l>>

ColorHslMinMax(col, min, max) ==
    ColorHslOf(col, min, max, QDiv(QAdd(max, min), QInt(2)))

\* func (col Color) Hsl() (h, s, l float64)
ColorHsl(col) ==
    ColorHslMinMax(col, QMin(QMin(col.R, col.G), col.B),
                   QMax(QMax(col.R, col.G), col.B))

ColorHslDivisorsOf(min, max) ==
    IF min = max THEN {QInt(2)}
    ELSE {QInt(2), QSub(max, min),
          IF QLt(QDiv(QAdd(max, min), QInt(2)), Q(1, 2)) THEN QAdd(max, min)
          ELSE QSub(QSub(QInt(2), max), min)}

\* the divisors Color.Hsl evaluates on the path it takes
ColorHslDivisors(col) ==
    ColorHslDivisorsOf(QMin(QMin(col.R, col.G), col.B),
                       QMax(QMax(col.R, col.G), col.B))

\* if t < 0 { t++ }
HslWrapUp(x) == IF QLt(x, Zero) THEN QAdd(x, One) ELSE x

\* if t > 1 { t-- }
HslWrapDown(x) == IF QLt(One, x) THEN QSub(x, One) ELSE x

\* tr, tg, tb from h/360
HslTempsOf(h1) ==
    <<HslWrapDown(HslWrapUp(QAdd(h1, Q(1, 3)))),
      HslWrapDown(HslWrapUp(h1)),
      HslWrapDown(HslWrapUp(QSub(h1, Q(1, 3))))>>

\* faulty variant: the temporary hues not wrapped
HslTemps_NoWrap(h) ==
    <<QAdd(QDiv(h, QInt(360)), Q(1, 3)), QDiv(h, QInt(360)),
      QSub(QDiv(h, QInt(360)), Q(1, 3))>>

\* the temporary hues tr, tg, tb of Hsl as its breakpoint tests read them
HslTemps(h) == HslTempsOf(QDiv(h, QInt(360)))

\* one channel of Hsl from its temporary hue
HslChannel(t1, t2, tc) ==
    IF QLt(QMul(QInt(6), tc), One)
    THEN QAdd(t2, QMul(QMul(QSub(t1, t2), QInt(6)), tc))
    ELSE IF QLt(QMul(QInt(2), tc), One)
    THEN t1
    ELSE IF QLt(QMul(QInt(3), tc), QInt(2))
    THEN QAdd(t2, QMul(QMul(QSub(t1, t2), QSub(Q(2, 3), tc)), QInt(6)))
    ELSE t2

HslChannels(t1, t2, tt) ==
    Color(HslChannel(t1, t2, tt[1]), HslChannel(t1, t2, tt[2]),
          HslChannel(t1, t2, tt[3]))

HslOf(t1, l, tt) == HslChannels(t1, QSub(QMul(QInt(2), l), t1), tt)

\* func Hsl(h, s, l float64) Color
Hsl(h, s, l) ==
    IF s = Zero THEN Color(l, l, l)
    ELSE HslOf(IF QLt(l, Q(1, 2)) THEN QMul(l, QAdd(One, s))
               ELSE QSub(QAdd(l, s), QMul(l, s)),
               l, HslTemps(h))

(***************************************************************************)
(* Reference whites, xyY and L*u*v*.  A white is a triple <<Xn, Yn, Zn>>.  *)
(* Each conversion has a companion that gives the divisors it evaluates at *)
(* run time on the path it takes.                                          *)
(***************************************************************************)
D65 == <<Q(95047, 100000), One, Q(108883, 100000)>>

D50 == <<Q(96422, 100000), One, Q(82521, 100000)>>

\* math.Abs(a) < 1e-14
Tiny(a) == a[2] # 0 /\ IAbs(a[1]) <= (a[2] \div 10^7) \div 10^7

\* faulty variant: black not given the white's chromaticity
XyzToXyyOf_NoBlack(X, Y, wref, N, ws) == <<QDiv(X, N), QDiv(Y, N), Y>>

\* XyzToXyyWhiteRef from N = X + Y + Z and the sum ws of the white
XyzToXyyOf(X, Y, wref, N, ws) ==
    IF Tiny(N) THEN <<QDiv(wref[1], ws), QDiv(wref[2], ws), Y>>
    ELSE <<QDiv(X, N), QDiv(Y, N), Y>>

\* returns <<x, y, Yout>>
XyzToXyyWhiteRef(X, Y, Z, wref) ==
    XyzToXyyOf(X, Y, wref, QAdd(QAdd(X, Y), Z),
               QAdd(QAdd(wref[1], wref[2]), wref[3]))

XyzToXyyDivisorsOf(N, ws) == IF Tiny(N) THEN {ws} ELSE {N}

XyzToXyyWhiteRefDivisors(X, Y, Z, wref) ==
    XyzToXyyDivisorsOf(QAdd(QAdd(X, Y), Z),
                       QAdd(QAdd(wref[1], wref[2]), wref[3]))

\* returns <<X, Yout, Z>>
XyyToXyz(x, y, Y) ==
    IF Tiny(y) THEN <<Zero, Y, Zero>>
    ELSE <<QMul(QDiv(Y, y), x), Y,
           QMul(QDiv(Y, y), QSub(QSub(One, x), y))>>

XyyToXyzDivisors(x, y, Y) == IF Tiny(y) THEN {} ELSE {y}

xyz_to_uvOf(x, y, denom) ==
    IF denom = Zero THEN <<Zero, Zero>>
    ELSE <<QDiv(QMul(QInt(4), x), denom), QDiv(QMul(QInt(9), y), denom)>>

\* returns <<u, v>>
xyz_to_uv(x, y, z) ==
    xyz_to_uvOf(x, y, QAdd(QAdd(x, QMul(QInt(15), y)), QMul(QInt(3), z)))

xyz_to_uvDivisorsOf(denom) == IF denom = Zero THEN {} ELSE {denom}

xyz_to_uvDivisors(x, y, z) ==
    xyz_to_uvDivisorsOf(QAdd(QAdd(x, QMul(QInt(15), y)), QMul(QInt(3), z)))

\* the l of XyzToLuvWhiteRef from yr = y/wref[1]
LuvLightness(yr) ==
    IF QLe(yr, Q(216, 24389))
    THEN QDiv(QMul(yr, Q(24389, 27)), QInt(100))
    ELSE QSub(QMul(Q(29, 25), QCbrt(yr)), Q(4, 25))

\* <<l, u, v>> from l, <<ubis, vbis>> and <<un, vn>>
LuvOf(l, bis, n) ==
    <<l, QMul(QMul(QInt(13), l), QSub(bis[1], n[1])),
         QMul(QMul(QInt(13), l), QSub(bis[2], n[2]))>>

\* returns <<l, u, v>>
XyzToLuvWhiteRef(x, y, z, wref) ==
    LuvOf(LuvLightness(QDiv(y, wref[2])), xyz_to_uv(x, y, z),
          xyz_to_uv(wref[1], wref[2], wref[3]))

XyzToLuvWhiteRefDivisors(x, y, z, wref) ==
    {wref[2]}
        \cup (IF QLe(QDiv(y, wref[2]), Q(216, 24389)) THEN {QInt(100)} ELSE {})
        \cup xyz_to_uvDivisors(x, y, z)
        \cup xyz_to_uvDivisors(wref[1], wref[2], wref[3])

\* the y of LuvToXyzWhiteRef
LuvToY(l, yn) ==
    IF QLe(l, Q(2, 25))
    THEN QDiv(QMul(QDiv(QMul(QDiv(QMul(QMul(QMul(yn, l), QInt(100)), QInt(3)),
                                  QInt(29)),
                             QInt(3)),
                        QInt(29)),
                   QInt(3)),
              QInt(29))
    ELSE QMul(yn, cub(QDiv(QAdd(l, Q(4, 25)), Q(29, 25))))

\* <<x, y, z>> of LuvToXyzWhiteRef for l # 0
LuvToXyzOf(y, ubis, vbis) ==
    <<QDiv(QMul(QMul(y, QInt(9)), ubis), QMul(QInt(4), vbis)),
      y,
      QDiv(QMul(y, QSub(QSub(QInt(12), QMul(QInt(3), ubis)),
                        QMul(QInt(20), vbis))),
           QMul(QInt(4), vbis))>>

\* LuvToXyzWhiteRef from <<un, vn>>
LuvToXyzWhite(l, u, v, yn, n) ==
    IF l # Zero
    THEN LuvToXyzOf(LuvToY(l, yn),
                    QAdd(QDiv(u, QMul(QInt(13), l)), n[1]),
                    QAdd(QDiv(v, QMul(QInt(13), l)), n[2]))
    ELSE <<Zero, Zero, Zero>>

\* returns <<x, y, z>>
LuvToXyzWhiteRef(l, u, v, wref) ==
    LuvToXyzWhite(l, u, v, wref[2], xyz_to_uv(wref[1], wref[2], wref[3]))

LuvToXyzDivisorsOf(l, v, n) ==
    IF l # Zero
    THEN {QMul(QInt(13), l),
          QMul(QInt(4), QAdd(QDiv(v, QMul(QInt(13), l)), n[2]))}
    ELSE {}

LuvToXyzWhiteRefDivisors(l, u, v, wref) ==
    (IF QLe(l, Q(2, 25)) THEN {QInt(29)} ELSE {Q(29, 25)})
        \cup xyz_to_uvDivisors(wref[1], wref[2], wref[3])
        \cup LuvToXyzDivisorsOf(l, v, xyz_to_uv(wref[1], wref[2], wref[3]))

(***************************************************************************)
(* Linear RGB, XYZ, L*a*b* and the CIE94 distance.                         *)
(***************************************************************************)
\* y*y*y*y*y from y and y*y
Pow5Of(y, y2) == QMul(QMul(y2, y2), y)

Pow5(y) == Pow5Of(y, sq(y))

\* the largest k in lo..hi-1 with (k/RootRes)^5 <= a
RECURSIVE Root5BS(_, _, _)
Root5BS(a, lo, hi) ==
    IF hi - lo <= 1 THEN lo
    ELSE IF QLe(Pow5(Q((lo + hi) \div 2, RootRes)), a)
    THEN Root5BS(a, (lo + hi) \div 2, hi)
    ELSE Root5BS(a, lo, (lo + hi) \div 2)

\* x^2.4 as x^2 times the fifth root of x^2, the root rounded to a multiple
\* of 1/RootRes
Pow24Of(x2) ==
    QMul(x2, Q(Root5BS(x2, 0, RootRes * (QTrunc(x2) + 1) + 1), RootRes))

\* math.Pow(x, 2.4): NaN below zero
Pow24(x) == IF x[2] = 0 \/ x[1] < 0 THEN NaN ELSE Pow24Of(sq(x))

linearize(v) ==
    IF QLe(v, Q(4045, 100000)) THEN QDiv(v, Q(1292, 100))
    ELSE Pow24(QDiv(QAdd(v, Q(55, 1000)), Q(1055, 1000)))

\* func (col Color) LinearRgb() (r, g, b float64)
ColorLinearRgb(col) == <<linearize(col.R), linearize(col.G), linearize(col.B)>>

\* the matrix of the source, its entries rounded to six decimals; takes
\* <<r, g, b>>, returns <<x, y, z>>
LinearRgbToXyz(rgb) ==
    <<QAdd(QAdd(QMul(Q(412391, 1000000), rgb[1]),
                QMul(Q(357584, 1000000), rgb[2])),
           QMul(Q(180481, 1000000), rgb[3])),
      QAdd(QAdd(QMul(Q(212639, 1000000), rgb[1]),
                QMul(Q(715169, 1000000), rgb[2])),
           QMul(Q(72192, 1000000), rgb[3])),
      QAdd(QAdd(QMul(Q(19331, 1000000), rgb[1]),
                QMul(Q(119195, 1000000), rgb[2])),
           QMul(Q(950532, 1000000), rgb[3]))>>

\* func (col Color) Xyz() (x, y, z float64)
ColorXyz(col) == LinearRgbToXyz(ColorLinearRgb(col))

lab_f(t) ==
    IF QLt(Q(216, 24389), t) THEN QCbrt(t)
    ELSE QAdd(QDiv(QMul(QDiv(QMul(QDiv(t, QInt(3)), QInt(29)), QInt(6)),
                        QInt(29)),
                   QInt(6)),
              Q(4, 29))

\* <<l, a, b>> from the companded fx, fy, fz
LabOf(fx, fy, fz) ==
    <<QSub(QMul(Q(29, 25), fy), Q(4, 25)),
      QMul(QInt(5), QSub(fx, fy)),
      QMul(QInt(2), QSub(fy, fz))>>

\* takes <<x, y, z>>, returns <<l, a, b>>
XyzToLabWhiteRef(xyz, wref) ==
    LabOf(lab_f(QDiv(xyz[1], wref[1])), lab_f(QDiv(xyz[2], wref[2])),
          lab_f(QDiv(xyz[3], wref[3])))

\* func (col Color) Lab() (l, a, b float64)
ColorLab(col) == XyzToLabWhiteRef(ColorXyz(col), D65)

\* l, a, b = l*100.0, a*100.0, b*100.0
LabTimes100(p) ==
    <<QMul(p[1], QInt(100)), QMul(p[2], QInt(100)), QMul(p[3], QInt(100))>>

\* math.Sqrt(sq(a) + sq(b)) of a rescaled <<l, a, b>>
LabChroma(p) == QSqrt(QAdd(sq(p[2]), sq(p[3])))

\* faulty variant: the lightness difference not squared
CIE94Terms_SignedL(deltaL, c1, deltaCab, dab2) ==
    QMul(QSqrt(QAdd(QAdd(QDiv(deltaL, QMul(One, One)),
                         sq(QDiv(deltaCab,
                                 QMul(One, QAdd(One, QMul(Q(45, 1000), c1)))))),
                    QDiv(QSub(dab2, sq(deltaCab)),
                         sq(QMul(One, QAdd(One, QMul(Q(15, 1000), c1))))))),
         Q(1, 100))

\* the weighted terms of DistanceCIE94 and its result, with kl = kc = kh =
\* sl = 1, k1 = 0.045, k2 = 0.015, and dab2 = sq(a1-a2) + sq(b1-b2)
CIE94Terms(deltaL, c1, deltaCab, dab2) ==
    QMul(QSqrt(QAdd(QAdd(sq(QDiv(deltaL, QMul(One, One))),
                         sq(QDiv(deltaCab,
                                 QMul(One, QAdd(One, QMul(Q(45, 1000), c1)))))),
                    QDiv(QSub(dab2, sq(deltaCab)),
                         sq(QMul(One, QAdd(One, QMul(Q(15, 1000), c1))))))),
         Q(1, 100))

\* DistanceCIE94 from the chromas c1 and c2 of the two colours
CIE94Chroma(p1, p2, c1, c2) ==
    CIE94Terms(QSub(p1[1], p2[1]), c1, QSub(c1, c2),
               QAdd(sq(QSub(p1[2], p2[2])), sq(QSub(p1[3], p2[3]))))

\* DistanceCIE94 from the rescaled <<l, a, b>> of the two colours
CIE94Of(p1, p2) == CIE94Chroma(p1, p2, LabChroma(p1), LabChroma(p2))

\* func (cl Color) DistanceCIE94(cr Color) float64
DistanceCIE94(cl, cr) ==
    CIE94Of(LabTimes100(ColorLab(cl)), LabTimes100(ColorLab(cr)))

(***************************************************************************)
(* Angles.  math.Atan2, math.Cos and math.Sin have irrational results and  *)
(* are modelled in degrees by rational approximations that are exact on    *)
(* the axes (and Atan2 on the diagonals) and within 0.1 degree, 0.002 of   *)
(* the true value elsewhere.                                               *)
(***************************************************************************)
\* the arc tangent of r in [0,1], in degrees
AtanDeg01(r) ==
    QSub(QMul(QInt(45), r),
         QMul(QMul(r, QSub(r, One)), QAdd(Q(1402, 100), QMul(Q(380, 100), r))))

\* the angle of (ax, ay) in the first quadrant, in degrees
AtanOctant(ax, ay) ==
    IF QLe(ay, ax) THEN AtanDeg01(QDiv(ay, ax))
    ELSE QSub(QInt(90), AtanDeg01(QDiv(ax, ay)))

\* the angle moved to the quadrant of (x, y)
Atan2Of(y, x, base) ==
    IF x[1] >= 0 THEN (IF y[1] >= 0 THEN base ELSE QNeg(base))
    ELSE IF y[1] >= 0 THEN QSub(QInt(180), base)
    ELSE QSub(base, QInt(180))

\* 57.29577951308232087721*math.Atan2(y, x): in [-180, 180]
Atan2Deg(y, x) ==
    IF y[2] = 0 \/ x[2] = 0 THEN NaN
    ELSE IF x = Zero /\ y = Zero THEN Zero
    ELSE Atan2Of(y, x, AtanOctant(QAbs(x), QAbs(y)))

\* the sine of an angle in [0,180] from p = x*(180-x)
SinOfProduct(p) == QDiv(QMul(QInt(4), p), QSub(QInt(40500), p))

\* the sine of x degrees, x in [0,360)
SinTurn(x) ==
    IF QLe(x, QInt(180)) THEN SinOfProduct(QMul(x, QSub(QInt(180), x)))
    ELSE QNeg(SinOfProduct(QMul(QSub(x, QInt(180)), QSub(QInt(360), x))))

\* math.Sin(0.01745329251994329576 * h)
SinDeg(h) ==
    IF h[2] = 0 THEN NaN
    ELSE IF h[1] < 0 THEN QNeg(SinTurn(QMod(QNeg(h), QInt(360))))
    ELSE SinTurn(QMod(h, QInt(360)))

\* math.Cos(0.01745329251994329576 * h)
CosDeg(h) == SinDeg(QAdd(h, QInt(90)))

(***************************************************************************)
(* The way back from XYZ to sRGB.                                          *)
(***************************************************************************)
\* v^(5/12) from c, the cube root of v: c times the fourth root of c
PowInv24Of(c) == QMul(c, QSqrt(QSqrt(c)))

\* math.Pow(v, 1.0/2.4), its roots rounded down to multiples of 1/RootRes:
\* NaN below zero
PowInv24(v) ==
    IF v[2] = 0 \/ v[1] < 0 THEN NaN ELSE PowInv24Of(QCbrt(v))

\* faulty variant: the linear branch taken up to 0.04045/12.92
delinearize_WideLinear(v) ==
    IF QLe(v, Q(4045, 1292000)) THEN QMul(Q(1292, 100), v)
    ELSE QSub(QMul(Q(1055, 1000), PowInv24(v)), Q(55, 1000))

delinearize(v) ==
    IF QLe(v, Q(31308, 10000000)) THEN QMul(Q(1292, 100), v)
    ELSE QSub(QMul(Q(1055, 1000), PowInv24(v)), Q(55, 1000))

\* func LinearRgb(r, g, b float64) Color, of <<r, g, b>>
LinearRgb(rgb) ==
    Color(delinearize(rgb[1]), delinearize(rgb[2]), delinearize(rgb[3]))

\* the matrix of the source, its entries rounded to six decimals; takes
\* <<x, y, z>>, returns <<r, g, b>>
XyzToLinearRgb(xyz) ==
    <<QSub(QSub(QMul(Q(3240970, 1000000), xyz[1]),
                QMul(Q(1537383, 1000000), xyz[2])),
           QMul(Q(498611, 1000000), xyz[3])),
      QAdd(QAdd(QMul(Q(-969244, 1000000), xyz[1]),
                QMul(Q(1875968, 1000000), xyz[2])),
           QMul(Q(41555, 1000000), xyz[3])),
      QAdd(QSub(QMul(Q(55630, 1000000), xyz[1]),
                QMul(Q(203977, 1000000), xyz[2])),
           QMul(Q(1056972, 1000000), xyz[3]))>>

\* func Xyz(x, y, z float64) Color, of <<x, y, z>>
Xyz(xyz) == LinearRgb(XyzToLinearRgb(xyz))

\* faulty variant: the cube whatever the argument
lab_finv_CubeAlways(t) == cub(t)

lab_finv(t) ==
    IF QLt(Q(6, 29), t) THEN cub(t)
    ELSE QMul(QDiv(QMul(QDiv(QMul(QInt(3), QInt(6)), QInt(29)), QInt(6)),
                   QInt(29)),
              QSub(t, Q(4, 29)))

\* LabToXyzWhiteRef from l2 = (l + 0.16) / 1.16
LabToXyzOf(l2, a, b, wref) ==
    <<QMul(wref[1], lab_finv(QAdd(l2, QDiv(a, QInt(5))))),
      QMul(wref[2], lab_finv(l2)),
      QMul(wref[3], lab_finv(QSub(l2, QDiv(b, QInt(2)))))>>

\* takes <<l, a, b>>, returns <<x, y, z>>
LabToXyzWhiteRef(lab, wref) ==
    LabToXyzOf(QDiv(QAdd(lab[1], Q(4, 25)), Q(29, 25)), lab[2], lab[3], wref)

(***************************************************************************)
(* HCL and LuvLCh: L*a*b* and L*u*v* in cylindrical coordinates.           *)
(***************************************************************************)
\* the hue of LabToHcl and of LuvToLuvLCh from the two coordinates
PolarHue(a, b) ==
    IF QLt(Q(1, 10000), QAbs(QSub(b, a))) /\ QLt(Q(1, 10000), QAbs(a))
    THEN QMod(QAdd(Atan2Deg(b, a), QInt(360)), QInt(360))
    ELSE Zero

\* takes L, a, b, returns <<h, c, l>>
LabToHcl(L, a, b) == <<PolarHue(a, b), QSqrt(QAdd(sq(a), sq(b))), L>>

\* takes h, c, l, returns <<L, a, b>>
HclToLab(h, c, l) == <<l, QMul(c, CosDeg(h)), QMul(c, SinDeg(h))>>

\* func (col Color) Hcl() (h, c, l float64), by D65
LabToHclOf(lab) == LabToHcl(lab[1], lab[2], lab[3])

ColorHcl(col) == LabToHclOf(ColorLab(col))

\* func Hcl(h, c, l float64) Color, by D65
Hcl(h, c, l) == Xyz(LabToXyzWhiteRef(HclToLab(h, c, l), D65))

\* the hue BlendHcl passes to Hcl, a and b the <<h, c, l>> of the colours
BlendHclHue(a, b, t) ==
    interp_angle(IF QLe(a[2], Q(15, 100000)) /\ QLe(Q(15, 100000), b[2])
                 THEN b[1] ELSE a[1],
                 IF ~(QLe(a[2], Q(15, 100000)) /\ QLe(Q(15, 100000), b[2]))
                        /\ QLe(b[2], Q(15, 100000))
                        /\ QLe(Q(15, 100000), a[2])
                 THEN a[1] ELSE b[1],
                 t)

BlendHclOf(a, b, t) ==
    Clamped(Hcl(BlendHclHue(a, b, t),
                QAdd(a[2], QMul(t, QSub(b[2], a[2]))),
                QAdd(a[3], QMul(t, QSub(b[3], a[3])))))

BlendHcl(col1, col2, t) == BlendHclOf(ColorHcl(col1), ColorHcl(col2), t)

\* func (col Color) Luv() (l, u, v float64), by D65
XyzToLuvOf(xyz) == XyzToLuvWhiteRef(xyz[1], xyz[2], xyz[3], D65)

ColorLuv(col) == XyzToLuvOf(ColorXyz(col))

\* takes L, u, v, returns <<l, c, h>>
LuvToLuvLCh(L, u, v) == <<L, QSqrt(QAdd(sq(u), sq(v))), PolarHue(u, v)>>

LuvToLuvLChOf(luv) == LuvToLuvLCh(luv[1], luv[2], luv[3])

\* func (col Color) LuvLCh() (l, c, h float64), by D65
ColorLuvLCh(col) == LuvToLuvLChOf(ColorLuv(col))

\* takes l, c, h, returns <<L, u, v>>
LuvLChToLuv(l, c, h) == <<l, QMul(c, CosDeg(h)), QMul(c, SinDeg(h))>>

\* func Luv(l, u, v float64) Color, of <<l, u, v>>, by D65
Luv(luv) == Xyz(LuvToXyzWhiteRef(luv[1], luv[2], luv[3], D65))

\* func LuvLCh(l, c, h float64) Color, by D65
LuvLCh(l, c, h) == Luv(LuvLChToLuv(l, c, h))

\* the hue BlendLuvLCh passes to LuvLCh, a and b the <<l, c, h>> of the
\* colours
BlendLuvLChHue(a, b, t) == interp_angle(a[3], b[3], t)

BlendLuvLChOf(a, b, t) ==
    LuvLCh(QAdd(a[1], QMul(t, QSub(b[1], a[1]))),
           QAdd(a[2], QMul(t, QSub(b[2], a[2]))),
           BlendLuvLChHue(a, b, t))

BlendLuvLCh(col1, col2, t) ==
    BlendLuvLChOf(ColorLuvLCh(col1), ColorLuvLCh(col2), t)

(***************************************************************************)
(* The arguments the caller draws.                                         *)
(***************************************************************************)
Chan == {Q(k, ChanMax) : k \in 0..ChanMax}

Colors == {Color(r, g, b) : r \in Chan, g \in Chan, b \in Chan}

Chan2 == {Q(k, PairMax) : k \in 0..PairMax}

Colors2 == {Color(r, g, b) : r \in Chan2, g \in Chan2, b \in Chan2}
Colors2Flat == {Color(r, g, g) : r \in Chan2, g \in Chan2}

WideChan == {Q(k, ChanMax) : k \in (0 - OverMax)..(ChanMax + OverMax)}

WideColors == {Color(r, g, b) : r \in WideChan, g \in WideChan, b \in WideChan}

Ts == {Q(k, TMax) : k \in 0..TMax}

Hues == {Q(360 * k, HueDiv) : k \in 0..(HueDiv - 1)} \cup {QInt(10), QInt(350)}

WideHues == {Q(360 * k, HueDiv) : k \in (0 - HueDiv)..(2 * HueDiv)}

Sats == {Q(k, SatMax) : k \in 0..SatMax}

NearSteps == {QMul(QInt(k), Delta) : k \in (0 - NearMax)..NearMax}

Near(c) == {Color(QAdd(c.R, x), QAdd(c.G, y), QAdd(c.B, z)) :
              x \in NearSteps, y \in NearSteps, z \in NearSteps}

LabChan == {Q(k, LabMax) : k \in 0..LabMax}

LabColors == {Color(r, g, b) : r \in LabChan, g \in LabChan, b \in LabChan}

\* the second colour of a distance: the grays and the reds and cyans
LabColors2 == {Color(r, g, g) : r \in LabChan, g \in LabChan}

\* grays, and colours of every hue sextant boundary
HclChan == {Q(k, HclMax) : k \in 0..HclMax}

HclColors == {Color(r, g, g) : r \in HclChan, g \in HclChan}
HclEnds == {Color(r, Zero, Zero) : r \in HclChan}

PolarVals == {Q(k, PolarMax) : k \in (0 - PolarMax)..PolarMax}

\* the lightness given to the polar conversions
PolarLs == {Q(1, 2), One}

LinVals ==
    {QSub(Q(4045, 100000), Q(j, 20000)) : j \in 0..LinSpan}
        \cup {Q(k, LinSpan) : k \in 0..LinSpan}

Whites == {D65, D50}

\* arguments of which math.Cbrt is a short fraction
CoarseCubes == {cub(Q(k, 2)) : k \in 0..CubeMax}

\* the same, and cubes around the knee (6/29)^3 of lab_f
LabTs ==
    CoarseCubes
        \cup {cub(QAdd(Q(6, 29), Q(j, 29 * CubeMax))) :
                  j \in (0 - CubeMax)..CubeMax}

\* tristimulus values that are such multiples of the reference white
LabXyzs(wref) ==
    {<<QMul(wref[1], tx), QMul(wref[2], ty), QMul(wref[3], tz)>> :
        tx \in CoarseCubes, ty \in LabTs, tz \in CoarseCubes}

XyzVals == {Q(k, XyzMax) : k \in (0 - XyzMax)..XyzMax}

LuvLs == {Q(k, LuvMax) : k \in 0..LuvMax} \cup {Q(2, 25)}

LuvUs == {Q(k, LuvMax) : k \in (0 - LuvMax)..LuvMax}

\* the grid, and the v at which v/(13.0*l) is the opposite of the white's v'
LuvVs(l, wref) ==
    LuvUs \cup {QNeg(QMul(QMul(QInt(13), l),
                          xyz_to_uv(wref[1], wref[2], wref[3])[2]))}

(***************************************************************************)
(* The caller.  A call record holds the operation, its arguments, its      *)
(* result and the divisors it evaluated.                                   *)
(***************************************************************************)
CallOf(o, a, r, d) == [op |-> o, args |-> a, ret |-> r, divs |-> d]

NoCall == CallOf("none", <<>>, <<>>, {})

\* no call made yet
Idle == call = NoCall

\* the current call follows no other
Fresh == call # NoCall /\ prev = NoCall

\* the package-level declarations: const Delta, var D65, var D50
PkgInit == [Delta |-> Delta, D65 |-> D65, D50 |-> D50]

Goroutines == 1..NumGo

\* a goroutine outside the library
Outside == [pc |-> "outside", op |-> "none", given |-> <<>>, args |-> <<>>,
            frame |-> <<>>, ret |-> <<>>]

Init ==
    /\ call = NoCall
    /\ prev = NoCall
    /\ pkg = PkgInit
    /\ pending = [g \in Goroutines |-> Outside]

CallIsValid ==
    /\ Idle
    /\ UNCHANGED shared
    /\ \E c \in WideColors :
        /\ call' = CallOf("IsValid", <<c>>, IsValid(c), {})
        /\ prev' = NoCall

CallClamped ==
    /\ Idle
    /\ UNCHANGED shared
    /\ \E c \in WideColors :
        /\ call' = CallOf("Clamped", <<c>>, Clamped(c), {})
        /\ prev' = NoCall

\* c.Clamped().IsValid()
CallIsValidOfClamped ==
    /\ call.op = "Clamped" /\ Fresh
    /\ UNCHANGED shared
    /\ call' = CallOf("IsValid", <<call.ret>>, IsValid(call.ret), {})
    /\ prev' = call

\* c.IsValid() and then c.Clamped()
CallClampedAfterIsValid ==
    /\ call.op = "IsValid" /\ Fresh
    /\ UNCHANGED shared
    /\ call' = CallOf("Clamped", call.args, Clamped(call.args[1]), {})
    /\ prev' = call

CallDistanceRgb ==
    /\ Idle
    /\ UNCHANGED shared
    /\ \E c1 \in Colors, c2 \in Colors2 :
        /\ call' = CallOf("DistanceRgb", <<c1, c2>>, DistanceRgb(c1, c2), {})
        /\ prev' = NoCall

CallDistanceRiemersma ==
    /\ Idle
    /\ UNCHANGED shared
    /\ \E c1 \in Colors, c2 \in Colors2 :
        /\ call' = CallOf("DistanceRiemersma", <<c1, c2>>,
                          DistanceRiemersma(c1, c2), {QInt(2)})
        /\ prev' = NoCall

CallDistanceCIE94 ==
    /\ Idle
    /\ UNCHANGED shared
    /\ \E c1 \in LabColors, c2 \in LabColors2 :
        /\ call' = CallOf("DistanceCIE94", <<c1, c2>>, DistanceCIE94(c1, c2), {})
        /\ prev' = NoCall

CallAlmostEqualRgb ==
    /\ Idle
    /\ UNCHANGED shared
    /\ \E c1 \in Colors2 : \E c2 \in Near(c1) \cup Colors :
        /\ call' = CallOf("AlmostEqualRgb", <<c1, c2>>, AlmostEqualRgb(c1, c2), {})
        /\ prev' = NoCall

\* the same binary operation with its two colours exchanged
CallSwapped ==
    /\ Fresh
    /\ UNCHANGED shared
    /\ \/ /\ call.op = "DistanceRgb"
          /\ call' = CallOf(call.op, <<call.args[2], call.args[1]>>,
                            DistanceRgb(call.args[2], call.args[1]), {})
       \/ /\ call.op = "DistanceRiemersma"
          /\ call' = CallOf(call.op, <<call.args[2], call.args[1]>>,
                            DistanceRiemersma(call.args[2], call.args[1]),
                            {QInt(2)})
       \/ /\ call.op = "AlmostEqualRgb"
          /\ call' = CallOf(call.op, <<call.args[2], call.args[1]>>,
                            AlmostEqualRgb(call.args[2], call.args[1]), {})
       \/ /\ call.op = "DistanceCIE94"
          /\ call' = CallOf(call.op, <<call.args[2], call.args[1]>>,
                            DistanceCIE94(call.args[2], call.args[1]), {})
    /\ prev' = call

CallBlendRgb ==
    /\ Idle
    /\ UNCHANGED shared
    /\ \E c1 \in Colors2, c2 \in Colors2, t \in Ts :
        /\ call' = CallOf("BlendRgb", <<c1, c2, t>>, BlendRgb(c1, c2, t), {})
        /\ prev' = NoCall

CallBlendHsv ==
    /\ Idle
    /\ UNCHANGED shared
    /\ \E c1 \in Colors2, c2 \in Colors2Flat, t \in Ts :
        /\ call' = CallOf("BlendHsv", <<c1, c2, t>>, BlendHsv(c1, c2, t),
                          ColorHsvDivisors(c1) \cup ColorHsvDivisors(c2)
                              \cup {QInt(60)})
        /\ prev' = NoCall

CallBlendHcl ==
    /\ Idle
    /\ UNCHANGED shared
    /\ \E c1 \in HclColors, c2 \in HclEnds, t \in Ts :
        /\ call' = CallOf("BlendHcl", <<c1, c2, t>>, BlendHcl(c1, c2, t), {})
        /\ prev' = NoCall

CallBlendLuvLCh ==
    /\ Idle
    /\ UNCHANGED shared
    /\ \E c1 \in HclColors, c2 \in HclEnds, t \in Ts :
        /\ call' = CallOf("BlendLuvLCh", <<c1, c2, t>>,
                          BlendLuvLCh(c1, c2, t), {})
        /\ prev' = NoCall

CallLabToHcl ==
    /\ Idle
    /\ UNCHANGED shared
    /\ \E L \in PolarLs, a \in PolarVals, b \in PolarVals :
        /\ call' = CallOf("LabToHcl", <<L, a, b>>, LabToHcl(L, a, b), {})
        /\ prev' = NoCall

CallLuvToLuvLCh ==
    /\ Idle
    /\ UNCHANGED shared
    /\ \E L \in PolarLs, u \in PolarVals, v \in PolarVals :
        /\ call' = CallOf("LuvToLuvLCh", <<L, u, v>>, LuvToLuvLCh(L, u, v), {})
        /\ prev' = NoCall

CallLinearize ==
    /\ Idle
    /\ UNCHANGED shared
    /\ \E v \in LinVals :
        /\ call' = CallOf("linearize", <<v>>, <<linearize(v)>>, {})
        /\ prev' = NoCall

CallLabF ==
    /\ Idle
    /\ UNCHANGED shared
    /\ \E t \in LabTs :
        /\ call' = CallOf("lab_f", <<t>>, <<lab_f(t)>>, {})
        /\ prev' = NoCall

CallXyzToLabWhiteRef ==
    /\ Idle
    /\ UNCHANGED shared
    /\ \E wref \in Whites : \E xyz \in LabXyzs(wref) :
        /\ call' = CallOf("XyzToLabWhiteRef", <<xyz, wref>>,
                          XyzToLabWhiteRef(xyz, wref), {})
        /\ prev' = NoCall

CallInterpAngle ==
    /\ Idle
    /\ UNCHANGED shared
    /\ \E a0 \in Hues, a1 \in Hues, t \in Ts :
        /\ call' = CallOf("interp_angle", <<a0, a1, t>>, interp_angle(a0, a1, t),
                          {QInt(360)})
        /\ prev' = NoCall

CallColorHsv ==
    /\ Idle
    /\ UNCHANGED shared
    /\ \E c \in WideColors :
        /\ call' = CallOf("Color.Hsv", <<c>>, ColorHsv(c), ColorHsvDivisors(c))
        /\ prev' = NoCall

CallColorHsl ==
    /\ Idle
    /\ UNCHANGED shared
    /\ \E c \in WideColors :
        /\ call' = CallOf("Color.Hsl", <<c>>, ColorHsl(c), ColorHslDivisors(c))
        /\ prev' = NoCall

CallHsv ==
    /\ Idle
    /\ UNCHANGED shared
    /\ \E H \in WideHues, S \in Sats, V \in Sats :
        /\ call' = CallOf("Hsv", <<H, S, V>>, Hsv(H, S, V), {QInt(60)})
        /\ prev' = NoCall

CallHsl ==
    /\ Idle
    /\ UNCHANGED shared
    /\ \E h \in WideHues, s \in Sats, l \in Sats :
        /\ call' = CallOf("Hsl", <<h, s, l>>, Hsl(h, s, l), {QInt(360)})
        /\ prev' = NoCall

CallXyzToXyy ==
    /\ Idle
    /\ UNCHANGED shared
    /\ \E X \in XyzVals, Y \in XyzVals, Z \in XyzVals, w \in Whites :
        /\ call' = CallOf("XyzToXyyWhiteRef", <<X, Y, Z, w>>,
                          XyzToXyyWhiteRef(X, Y, Z, w),
                          XyzToXyyWhiteRefDivisors(X, Y, Z, w))
        /\ prev' = NoCall

CallXyyToXyz ==
    /\ Idle
    /\ UNCHANGED shared
    /\ \E x \in XyzVals, y \in XyzVals, Y \in XyzVals :
        /\ call' = CallOf("XyyToXyz", <<x, y, Y>>, XyyToXyz(x, y, Y),
                          XyyToXyzDivisors(x, y, Y))
        /\ prev' = NoCall

CallXyzToLuv ==
    /\ Idle
    /\ UNCHANGED shared
    /\ \E x \in XyzVals, y \in XyzVals, z \in XyzVals, w \in Whites :
        /\ call' = CallOf("XyzToLuvWhiteRef", <<x, y, z, w>>,
                          XyzToLuvWhiteRef(x, y, z, w),
                          XyzToLuvWhiteRefDivisors(x, y, z, w))
        /\ prev' = NoCall

CallLuvToXyz ==
    /\ Idle
    /\ UNCHANGED shared
    /\ \E l \in LuvLs, u \in LuvUs, w \in Whites : \E v \in LuvVs(l, w) :
        /\ call' = CallOf("LuvToXyzWhiteRef", <<l, u, v, w>>,
                          LuvToXyzWhiteRef(l, u, v, w),
                          LuvToXyzWhiteRefDivisors(l, u, v, w))
        /\ prev' = NoCall

\* Hsv(c.Hsv()) and Hsl(c.Hsl()): the inverse applied to the forward result
CallInverseOfResult ==
    /\ Fresh
    /\ UNCHANGED shared
    /\ \/ /\ call.op = "Color.Hsv"
          /\ IsValid(call.args[1])
          /\ call' = CallOf("Hsv", call.ret,
                            Hsv(call.ret[1], call.ret[2], call.ret[3]),
                            {QInt(60)})
       \/ /\ call.op = "Color.Hsl"
          /\ IsValid(call.args[1])
          /\ call' = CallOf("Hsl", call.ret,
                            Hsl(call.ret[1], call.ret[2], call.ret[3]),
                            {QInt(360)})
       \/ /\ call.op = "LabToHcl"
          /\ call' = CallOf("HclToLab", call.ret,
                            HclToLab(call.ret[1], call.ret[2], call.ret[3]),
                            {})
       \/ /\ call.op = "LuvToLuvLCh"
          /\ call' = CallOf("LuvLChToLuv", call.ret,
                            LuvLChToLuv(call.ret[1], call.ret[2], call.ret[3]),
                            {})
       \/ /\ call.op = "lab_f"
          /\ call' = CallOf("lab_finv", call.ret,
                            <<lab_finv(call.ret[1])>>, {})
       \/ /\ call.op = "XyzToLabWhiteRef"
          /\ call' = CallOf("LabToXyzWhiteRef", <<call.ret, call.args[2]>>,
                            LabToXyzWhiteRef(call.ret, call.args[2]), {})
       \/ /\ call.op = "linearize"
          /\ call' = CallOf("delinearize", call.ret,
                            <<delinearize(call.ret[1])>>, {})
       \/ /\ call.op = "XyzToXyyWhiteRef"
          /\ call' = CallOf("XyyToXyz", call.ret,
                            XyyToXyz(call.ret[1], call.ret[2], call.ret[3]),
                            XyyToXyzDivisors(call.ret[1], call.ret[2],
                                             call.ret[3]))
    /\ prev' = call

\* the same inverse with the hue moved by whole turns
CallTurned ==
    /\ Fresh
    /\ UNCHANGED shared
    /\ call.op \in {"Hsv", "Hsl"}
    /\ \E k \in {-1, 1} :
        LET h == QAdd(call.args[1], QInt(360 * k))
        IN  \/ /\ call.op = "Hsv"
               /\ call' = CallOf("Hsv", <<h, call.args[2], call.args[3]>>,
                                 Hsv(h, call.args[2], call.args[3]), {QInt(60)})
            \/ /\ call.op = "Hsl"
               /\ call' = CallOf("Hsl", <<h, call.args[2], call.args[3]>>,
                                 Hsl(h, call.args[2], call.args[3]), {QInt(360)})
    /\ prev' = call

(***************************************************************************)
(* Concurrent callers.  Each goroutine enters an operation with its        *)
(* arguments copied into the callee's frame (Go passes Color, float64 and  *)
(* [3]float64 by value), the body runs, reading the package-level values   *)
(* it names, and the goroutine leaves with the result.                     *)
(***************************************************************************)
ConcVals == {Q(k, ConcMax) : k \in 0..ConcMax}

Gray(v) == Color(v, v, v)

\* the operations the goroutines call, with their arguments
ConcCalls ==
    {<<"XyzToXyy", <<v, v, v>>>> : v \in ConcVals}
        \cup {<<"XyzToLab", <<v, v, v>>>> : v \in ConcVals}
        \cup {<<"AlmostEqualRgb", <<Gray(v), Color(v, QAdd(v, Delta), v)>>>> :
                 v \in ConcVals}
        \cup {<<"Hsl", <<QMul(QInt(360), v), One, Q(1, 2)>>>> : v \in ConcVals}
        \cup {<<"Clamped", <<Gray(QMul(QInt(2), v))>>>> : v \in ConcVals}

\* what the body returns from its frame and the package-level values
ResultOf(op, a, p) ==
    CASE op = "XyzToXyy" -> XyzToXyyWhiteRef(a[1], a[2], a[3], p.D65)
      [] op = "XyzToLab" -> XyzToLabWhiteRef(a, p.D65)
      [] op = "AlmostEqualRgb" -> AlmostEqualRgb(a[1], a[2])
      [] op = "Hsl" -> Hsl(a[1], a[2], a[3])
      [] op = "Clamped" -> Clamped(a[1])

\* the callee's parameters after the body: Hsl divides its own h by 360
FrameAfter(op, a) ==
    IF op = "Hsl" THEN <<QDiv(a[1], QInt(360)), a[2], a[3]>> ELSE a

\* the caller's values after the call: parameters are copies
ArgsAfter(op, a, frame) == a

\* faulty variant: XyzToLab storing a white in the package-level D65
PkgAfter_StoresWhite(op, a, p) ==
    IF op = "XyzToLab" THEN [p EXCEPT !.D65 = p.D50] ELSE p

\* the package-level values after the body: no function assigns them
PkgAfter(op, a, p) == p

Enter(g) ==
    /\ pending[g].pc = "outside"
    /\ \E c \in ConcCalls :
        pending' = [pending EXCEPT ![g] =
            [pc |-> "running", op |-> c[1], given |-> c[2], args |-> c[2],
             frame |-> c[2], ret |-> <<>>]]
    /\ UNCHANGED <<pkg, seq>>

Return(g) ==
    /\ pending[g].pc = "running"
    /\ pending' = [pending EXCEPT ![g] =
            [pc |-> "returned", op |-> pending[g].op,
             given |-> pending[g].given,
             args |-> ArgsAfter(pending[g].op, pending[g].args,
                                pending[g].frame),
             frame |-> FrameAfter(pending[g].op, pending[g].frame),
             ret |-> ResultOf(pending[g].op, pending[g].frame, pkg)]]
    /\ pkg' = PkgAfter(pending[g].op, pending[g].frame, pkg)
    /\ UNCHANGED seq

Leave(g) ==
    /\ pending[g].pc = "returned"
    /\ pending' = [pending EXCEPT ![g] = Outside]
    /\ UNCHANGED <<pkg, seq>>

NextConc ==
    \/ \E g \in Goroutines : Enter(g)
    \/ \E g \in Goroutines : Return(g)
    \/ \E g \in Goroutines : Leave(g)

SpecConc == Init /\ [][NextConc]_vars

Next ==
    \/ CallLuvToXyz
    \/ CallXyzToLuv
    \/ CallXyyToXyz
    \/ CallXyzToXyy
    \/ CallIsValid
    \/ CallClamped
    \/ CallIsValidOfClamped
    \/ CallClampedAfterIsValid
    \/ CallDistanceRgb
    \/ CallDistanceRiemersma
    \/ CallDistanceCIE94
    \/ CallAlmostEqualRgb
    \/ CallSwapped
    \/ CallBlendRgb
    \/ CallBlendHsv
    \/ CallBlendHcl
    \/ CallBlendLuvLCh
    \/ CallLabToHcl
    \/ CallLuvToLuvLCh
    \/ CallLinearize
    \/ CallLabF
    \/ CallXyzToLabWhiteRef
    \/ CallInterpAngle
    \/ CallColorHsv
    \/ CallColorHsl
    \/ CallHsv
    \/ CallHsl
    \/ CallInverseOfResult
    \/ CallTurned

Spec == Init /\ [][Next]_vars

(***************************************************************************)
(* Helpers of the properties: stated on numerators and denominators, not   *)
(* through the operators of the model.                                     *)
(***************************************************************************)
\* a is a number in the closed interval [0,1]
InUnit(a) == a[2] > 0 /\ 0 <= a[1] /\ a[1] <= a[2]

ValidColor(c) == InUnit(c.R) /\ InUnit(c.G) /\ InUnit(c.B)

\* a is a number in the half-open interval [lo, hi) of integers
InHalfOpen(a, lo, hi) == a[2] > 0 /\ lo * a[2] <= a[1] /\ a[1] < hi * a[2]

MaxChan(c) == CHOOSE x \in {c.R, c.G, c.B} : \A y \in {c.R, c.G, c.B} : QLe(y, x)

MinChan(c) == CHOOSE x \in {c.R, c.G, c.B} : \A y \in {c.R, c.G, c.B} : QLe(x, y)

IsGray(c) == c.R = c.G /\ c.G = c.B

\* C1: Clamped always yields a valid colour and leaves a valid colour
\* unchanged; IsValid holds exactly when R, G and B all lie in [0,1].
C1_ClampedValid ==
    /\ (call.op = "IsValid" /\ prev.op = "Clamped" => call.ret = TRUE)
    /\ (call.op = "Clamped" /\ prev.op = "IsValid" /\ prev.ret = TRUE
            => call.ret = call.args[1])
    /\ (call.op = "IsValid" => (call.ret <=> ValidColor(call.args[1])))
    /\ (call.op = "Clamped" => ValidColor(call.ret))

C1_Witness ==
    /\ call.op = "IsValid" /\ prev.op = "Clamped"
    /\ ~ValidColor(prev.args[1])
    /\ QLt(One, prev.args[1].R) /\ QLt(prev.args[1].B, Zero)
    /\ call.ret = TRUE

\* C2: for every valid colour c, Hsv(c.Hsv()) = c and Hsl(c.Hsl()) = c
\* exactly, grays, black, white and shared maxima included.
C2_RoundTrip ==
    /\ (call.op = "Hsv" /\ prev.op = "Color.Hsv" /\ ValidColor(prev.args[1])
            => call.ret = prev.args[1])
    /\ (call.op = "Hsl" /\ prev.op = "Color.Hsl" /\ ValidColor(prev.args[1])
            => call.ret = prev.args[1])

C2_Witness ==
    /\ call.op = "Hsl" /\ prev.op = "Color.Hsl"
    /\ LET c == prev.args[1]
       IN  /\ ValidColor(c) /\ ~IsGray(c)
           /\ c.R = c.B /\ QLt(c.G, c.R) /\ c.G # Zero
           /\ call.ret = c

\* the chroma DistanceCIE94 computes for a colour
ChromaOf(c) == LabChroma(LabTimes100(ColorLab(c)))

\* C3 (as claimed): DistanceCIE94 is symmetric on valid colours, and zero
\* from a colour to itself.
C3_Symmetric ==
    call.op = "DistanceCIE94"
        /\ ValidColor(call.args[1]) /\ ValidColor(call.args[2]) =>
        /\ (prev.op = "DistanceCIE94" => call.ret = prev.ret)
        /\ (call.args[1] = call.args[2] => call.ret = Zero)

\* C3 (amended): DistanceCIE94 is zero from a valid colour to itself, and
\* gives the same distance both ways between two valid colours of equal
\* chroma.
C3_SymmetricOnEqualChroma ==
    call.op = "DistanceCIE94"
        /\ ValidColor(call.args[1]) /\ ValidColor(call.args[2]) =>
        /\ (prev.op = "DistanceCIE94"
                /\ ChromaOf(call.args[1]) = ChromaOf(call.args[2])
                => call.ret = prev.ret)
        /\ (call.args[1] = call.args[2] => call.ret = Zero)

C3_Witness ==
    /\ call.op = "DistanceCIE94" /\ prev.op = "DistanceCIE94"
    /\ ValidColor(call.args[1]) /\ ValidColor(call.args[2])
    /\ call.args[1] # call.args[2]
    /\ ChromaOf(call.args[1]) = ChromaOf(call.args[2])
    /\ call.ret = prev.ret /\ call.ret[1] > 0

\* C4 (as claimed): the inverses wrap any real hue, so a hue moved by whole
\* turns gives the same colour, and the temporary hues of Hsl lie in [0,1).
C4_HueWraps ==
    /\ (call.op \in {"Hsv", "Hsl"} /\ prev.op = call.op => call.ret = prev.ret)
    /\ (call.op = "Hsl" /\ call.args[2] # Zero =>
            \A i \in 1..3 : InHalfOpen(HslTemps(call.args[1])[i], 0, 1))

\* C5 (as claimed): no division of the xyY, L*u*v*, HSV and HSL forward and
\* inverse conversions is evaluated with a zero divisor, whatever the input
\* and for both reference whites.
C5_NoZeroDivisor ==
    call.op \in {"XyzToXyyWhiteRef", "XyyToXyz", "XyzToLuvWhiteRef",
                 "LuvToXyzWhiteRef", "Color.Hsv", "Color.Hsl", "Hsv", "Hsl"}
        => \A d \in call.divs : d[2] # 0 /\ d[1] # 0

\* C6: a blend in RGB or HSV at t = 0 is the first colour and at t = 1 the
\* second, also when exactly one of the two is gray.
C6_BlendBoundary ==
    call.op \in {"BlendRgb", "BlendHsv"} =>
        /\ (call.args[3] = Zero => call.ret = call.args[1])
        /\ (call.args[3] = One => call.ret = call.args[2])

C6_Witness ==
    /\ call.op = "BlendHsv" /\ call.args[3] = One
    /\ IsGray(call.args[1]) /\ ~IsGray(call.args[2])
    /\ call.args[1] # call.args[2]
    /\ call.ret = call.args[2]

\* the difference a1 - a0 reduced to the shortest arc, in [-180, 180)
ShortestArc(a0, a1) ==
    LET x == QSub(a1, a0)
        y == QAdd(x, QInt(180))
        k == y[1] \div (360 * y[2])
    IN  QSub(x, QInt(360 * k))

IsWholeTurns(a) == a[2] = 1 /\ a[1] % 360 = 0

\* C7: interp_angle(a0, a1, t) lies in [0,360) and is a0 + t*d modulo 360,
\* d the shortest arc from a0 to a1; it is a0 at t = 0, a1 at t = 1, and 0
\* half way from 350 to 10.
C7_InterpAngle ==
    call.op = "interp_angle" =>
        LET a0 == call.args[1]
            a1 == call.args[2]
            t  == call.args[3]
            d  == ShortestArc(a0, a1)
        IN  /\ InHalfOpen(d, -180, 180)
            /\ InHalfOpen(call.ret, 0, 360)
            /\ IsWholeTurns(QSub(QAdd(a0, QMul(t, d)), call.ret))
            /\ (t = Zero => call.ret = a0)
            /\ (t = One => call.ret = a1)
            /\ (a0 = QInt(350) /\ a1 = QInt(10) /\ t = Q(1, 2) => call.ret = Zero)

C7_Witness ==
    /\ call.op = "interp_angle"
    /\ call.args = <<QInt(350), QInt(10), Q(1, 2)>>
    /\ call.ret = Zero

\* the L1 distance of two colours in RGB
L1(c1, c2) ==
    QAdd(QAdd(QAbs(QSub(c1.R, c2.R)), QAbs(QSub(c1.G, c2.G))),
         QAbs(QSub(c1.B, c2.B)))

\* C8: AlmostEqualRgb holds exactly when the L1 distance is below 3/255; it
\* is reflexive and symmetric, and false when every channel differs by more
\* than 1/255.
C8_AlmostEqual ==
    call.op = "AlmostEqualRgb" =>
        LET c1 == call.args[1]
            c2 == call.args[2]
            d  == L1(c1, c2)
        IN  /\ (call.ret <=> 255 * d[1] < 3 * d[2])
            /\ (c1 = c2 => call.ret = TRUE)
            /\ (prev.op = "AlmostEqualRgb" => call.ret = prev.ret)
            /\ ((\A x \in {QSub(c1.R, c2.R), QSub(c1.G, c2.G), QSub(c1.B, c2.B)} :
                     255 * IAbs(x[1]) > x[2])
                    => call.ret = FALSE)

C8_Witness ==
    /\ call.op = "AlmostEqualRgb" /\ prev.op = "AlmostEqualRgb"
    /\ call.args[1] # call.args[2]
    /\ L1(call.args[1], call.args[2]) = Q(3, 255)
    /\ call.ret = FALSE

\* C9: DistanceRgb and DistanceRiemersma are symmetric, not negative, and
\* zero exactly on equal colours, for valid colours.
C9_Distance ==
    call.op \in {"DistanceRgb", "DistanceRiemersma"}
        /\ ValidColor(call.args[1]) /\ ValidColor(call.args[2]) =>
        /\ (prev.op = call.op => call.ret = prev.ret)
        /\ call.ret[2] > 0 /\ call.ret[1] >= 0
        /\ (call.ret[1] = 0 <=> call.args[1] = call.args[2])

C9_Witness ==
    /\ call.op = "DistanceRiemersma" /\ prev.op = "DistanceRiemersma"
    /\ call.args[1].R # call.args[2].R
    /\ call.args[1].B # call.args[2].B
    /\ call.ret = prev.ret /\ call.ret[1] > 0

\* C10: for a valid colour, Hsv gives a hue in [0,360), a saturation in
\* [0,1] equal to (max-min)/max (0 when max is 0) and the maximum channel as
\* value, with hue 0 when max = min; Hsl gives a hue in [0,360), a
\* saturation in [0,1] and the lightness (max+min)/2, with hue 0 and
\* saturation 0 when max = min.
C10_ForwardRanges ==
    call.op \in {"Color.Hsv", "Color.Hsl"} /\ ValidColor(call.args[1]) =>
        LET c  == call.args[1]
            mx == MaxChan(c)
            mn == MinChan(c)
            h  == call.ret[1]
            s  == call.ret[2]
        IN  /\ InHalfOpen(h, 0, 360)
            /\ InUnit(s)
            /\ (mx = mn => h = Zero)
            /\ (call.op = "Color.Hsv" =>
                    /\ call.ret[3] = mx
                    /\ (mx = Zero => s = Zero)
                    /\ (mx # Zero => QMul(s, mx) = QSub(mx, mn)))
            /\ (call.op = "Color.Hsl" =>
                    /\ QMul(call.ret[3], QInt(2)) = QAdd(mx, mn)
                    /\ (mx = mn => s = Zero))

C10_Witness ==
    /\ call.op = "Color.Hsv" /\ ValidColor(call.args[1])
    /\ QLt(QInt(300), call.ret[1])
    /\ QLt(Zero, call.ret[2]) /\ QLt(call.ret[2], One)
    /\ call.ret[3] = call.args[1].R

\* the sum of three numbers
Sum3(a, b, c) == QAdd(QAdd(a, b), c)

Black3 == <<Zero, Zero, Zero>>

\* C11: XyzToXyyWhiteRef passes Y through; when X+Y+Z is (near) zero x and y
\* are the reference white's chromaticity, otherwise X/(X+Y+Z) and
\* Y/(X+Y+Z); XyyToXyz of the result for black gives back (0,0,0).
C11_XyyDegenerate ==
    /\ call.op = "XyzToXyyWhiteRef" =>
        /\ call.ret[3] = call.args[2]
        /\ (Tiny(Sum3(call.args[1], call.args[2], call.args[3])) =>
                /\ call.ret[1] = QDiv(call.args[4][1],
                        Sum3(call.args[4][1], call.args[4][2], call.args[4][3]))
                /\ call.ret[2] = QDiv(call.args[4][2],
                        Sum3(call.args[4][1], call.args[4][2], call.args[4][3])))
        /\ (~Tiny(Sum3(call.args[1], call.args[2], call.args[3])) =>
                /\ call.ret[1] = QDiv(call.args[1],
                        Sum3(call.args[1], call.args[2], call.args[3]))
                /\ call.ret[2] = QDiv(call.args[2],
                        Sum3(call.args[1], call.args[2], call.args[3])))
        /\ (<<call.args[1], call.args[2], call.args[3]>> = Black3
                /\ call.args[4] = D65 =>
                call.ret = <<Q(95047, 303930), Q(100000, 303930), Zero>>)
    /\ (call.op = "XyyToXyz" /\ prev.op = "XyzToXyyWhiteRef"
            /\ <<prev.args[1], prev.args[2], prev.args[3]>> = Black3) =>
        call.ret = Black3

C11_Witness ==
    /\ call.op = "XyyToXyz" /\ prev.op = "XyzToXyyWhiteRef"
    /\ <<prev.args[1], prev.args[2], prev.args[3]>> = Black3
    /\ prev.args[4] = D65
    /\ prev.ret = <<Q(95047, 303930), Q(100000, 303930), Zero>>
    /\ call.ret = Black3

\* C12: under every interleaving of concurrent calls the package-level
\* Delta, D65 and D50 keep their declared values, the caller's arguments
\* are as they were passed, and every result is the function of the
\* arguments alone.
C12_NoSharedState ==
    /\ pkg = PkgInit
    /\ \A g \in Goroutines :
        /\ pending[g].args = pending[g].given
        /\ pending[g].pc = "returned" =>
               pending[g].ret = ResultOf(pending[g].op, pending[g].given,
                                         PkgInit)

C12_Witness ==
    /\ pending[1].pc = "returned" /\ pending[1].op = "XyzToLab"
    /\ pending[2].pc = "returned" /\ pending[2].op = "XyzToXyy"
    /\ pending[2].given = Black3
    /\ pending[2].ret = <<Q(95047, 303930), Q(100000, 303930), Zero>>
    /\ pending[1].given # Black3
    /\ pending[1].ret = XyzToLabWhiteRef(pending[1].given, D65)

\* a chroma the blends treat as zero
NearZeroChroma(c) == QLe(c, Q(15, 100000))

\* of two endpoints given as <<hue, chroma>>, exactly one of which is
\* chromatic, the hue of the chromatic one
ChromaticHue(e1, e2, zero1, zero2) == IF zero1 THEN e2[1] ELSE e1[1]

\* the hue passed on is that of the chromatic endpoint when exactly one
\* endpoint has no chroma
HueOfChromatic(passed, e1, e2, zero1, zero2) ==
    (zero1 # zero2) => passed = ChromaticHue(e1, e2, zero1, zero2)

C13_Hsv ==
    call.op = "BlendHsv" =>
        HueOfChromatic(BlendHsvHue(ColorHsv(call.args[1]),
                                   ColorHsv(call.args[2]), call.args[3]),
                       ColorHsv(call.args[1]), ColorHsv(call.args[2]),
                       ColorHsv(call.args[1])[2] = Zero,
                       ColorHsv(call.args[2])[2] = Zero)

C13_Hcl ==
    call.op = "BlendHcl" =>
        HueOfChromatic(BlendHclHue(ColorHcl(call.args[1]),
                                   ColorHcl(call.args[2]), call.args[3]),
                       ColorHcl(call.args[1]), ColorHcl(call.args[2]),
                       NearZeroChroma(ColorHcl(call.args[1])[2]),
                       NearZeroChroma(ColorHcl(call.args[2])[2]))

C13_LuvLCh ==
    call.op = "BlendLuvLCh" =>
        HueOfChromatic(BlendLuvLChHue(ColorLuvLCh(call.args[1]),
                                      ColorLuvLCh(call.args[2]), call.args[3]),
                       <<ColorLuvLCh(call.args[1])[3]>>,
                       <<ColorLuvLCh(call.args[2])[3]>>,
                       NearZeroChroma(ColorLuvLCh(call.args[1])[2]),
                       NearZeroChroma(ColorLuvLCh(call.args[2])[2]))

\* C13: in each of BlendHsv, BlendHcl and BlendLuvLCh, when one endpoint has
\* (near-)zero saturation or chroma and the other does not, the hue passed
\* to the inverse conversion is the chromatic endpoint's hue, for every t.
C13_ZeroChromaHue == C13_Hsv /\ C13_Hcl /\ C13_LuvLCh

\* within 1e-4 of zero
NearZero(x) == QLe(QAbs(x), Q(1, 10000))

\* within 1/100, the accuracy of the modelled sine and cosine
Close(x, y) == QLe(QAbs(QSub(x, y)), Q(1, 100))

\* atan2(b, a) in degrees normalized to [0,360)
HueOf(a, b) == QMod(QAdd(Atan2Deg(b, a), QInt(360)), QInt(360))

\* C14: LabToHcl and LuvToLuvLCh force the hue to 0 only when both
\* coordinates are near zero and near-equal; for every other (a, b) the hue
\* is atan2(b, a) in degrees normalized to [0,360), and the inverse gives
\* back (L, a, b).
C14_PolarHue ==
    /\ call.op = "LabToHcl" =>
           \/ NearZero(call.args[2]) /\ NearZero(call.args[3])
           \/ call.ret[1] = HueOf(call.args[2], call.args[3])
    /\ call.op = "LuvToLuvLCh" =>
           \/ NearZero(call.args[2]) /\ NearZero(call.args[3])
           \/ call.ret[3] = HueOf(call.args[2], call.args[3])
    /\ (call.op \in {"HclToLab", "LuvLChToLuv"}
            /\ prev.op \in {"LabToHcl", "LuvToLuvLCh"}) =>
           /\ call.ret[1] = prev.args[1]
           /\ Close(call.ret[2], prev.args[2])
           /\ Close(call.ret[3], prev.args[3])

\* 1.055*math.Pow(x, 1.0/2.4) - 0.055, the power branch of delinearize
PowerBranch(x) == QSub(QMul(Q(1055, 1000), PowInv24(x)), Q(55, 1000))

\* delinearize called on the result of linearize(v)
Delinearized(v) ==
    /\ call.op = "delinearize" /\ prev.op = "linearize"
    /\ prev.args[1] = v

\* C15 (as claimed): for v in [0, 0.04045] linearize(v) = v/12.92 is at most
\* 0.0031308 and delinearize, on its linear branch, gives back v; for v in
\* (0.04045, 1] linearize(v) is above 0.0031308 and delinearize takes its
\* power branch.
C15_ExactInverse ==
    \A v \in LinVals : Delinearized(v) =>
        IF QLe(v, Q(4045, 100000))
        THEN /\ prev.ret[1] = QDiv(v, Q(1292, 100))
             /\ QLe(prev.ret[1], Q(31308, 10000000))
             /\ call.ret[1] = v
        ELSE /\ QLt(Q(31308, 10000000), prev.ret[1])
             /\ call.ret[1] = PowerBranch(prev.ret[1])

\* C15 (amended): for v in [0, 0.04045] linearize(v) = v/12.92; where that
\* is at most 0.0031308 delinearize gives back v, and where it is above
\* (as at v = 0.04045) delinearize takes its power branch; for v in
\* (0.04045, 1] linearize(v) is above 0.0031308 and delinearize takes its
\* power branch.
C15_InverseBelowThreshold ==
    \A v \in LinVals : Delinearized(v) =>
        IF QLe(v, Q(4045, 100000))
        THEN /\ prev.ret[1] = QDiv(v, Q(1292, 100))
             /\ (QLe(prev.ret[1], Q(31308, 10000000)) => call.ret[1] = v)
             /\ (QLt(Q(31308, 10000000), prev.ret[1]) =>
                     call.ret[1] = PowerBranch(prev.ret[1]))
             /\ (v = Q(4045, 100000) =>
                     QLt(Q(31308, 10000000), prev.ret[1]))
        ELSE /\ QLt(Q(31308, 10000000), prev.ret[1])
             /\ call.ret[1] = PowerBranch(prev.ret[1])

C15_Witness ==
    /\ Delinearized(Q(4045, 100000))
    /\ QLt(Q(31308, 10000000), prev.ret[1])
    /\ call.ret[1] = PowerBranch(prev.ret[1])
    /\ call.ret[1] # Q(4045, 100000)

\* C16: for every t >= 0, lab_f(t) > 6/29 exactly when t > (6/29)^3, and
\* lab_finv of lab_f(t) is t; LabToXyzWhiteRef of the result of
\* XyzToLabWhiteRef, with the same white, gives back non-negative x, y, z.
C16_LabRoundTrip ==
    /\ call.op = "lab_f" =>
           (QLt(Q(6, 29), call.ret[1]) <=> QLt(cub(Q(6, 29)), call.args[1]))
    /\ (call.op = "lab_finv" /\ prev.op = "lab_f") =>
           call.ret[1] = prev.args[1]
    /\ (call.op = "LabToXyzWhiteRef" /\ prev.op = "XyzToLabWhiteRef") =>
           call.ret = prev.args[1]

\* one channel below the knee and one above it
C16_Witness ==
    /\ call.op = "LabToXyzWhiteRef" /\ prev.op = "XyzToLabWhiteRef"
    /\ prev.args[2] = D65
    /\ prev.args[1][1] = QMul(D65[1], Q(1, 8))
    /\ prev.args[1][2] = cub(Q(6, 29))
    /\ prev.args[1][3] = Zero
    /\ call.ret = prev.args[1]

=============================================================================
